---- MODULE Spec2Model ----
(***************************************************************************)
(* Model of src/src/ingest_finance.py: the normalisation helpers           *)
(* (to_cents, clean_description, compute_dedupe_hash), the account         *)
(* registry (upsert_account), the two source adapters and the de-duplicat- *)
(* ing insert (insert_transactions) over the SQLite schema SCHEMA_SQL.     *)
(*                                                                         *)
(* Python strings are sequences of one-character strings, so that          *)
(* formatting, searching and replacing are computed, not assumed.          *)
(***************************************************************************)
EXTENDS Integers, Sequences, FiniteSets, TLC

VARIABLES
    accounts,      \* rows of table accounts, as the connection sees them
    transactions,  \* rows of table transactions, as the connection sees them
    committed,     \* the durable database: what the last commit made visible
    last,          \* the last call: its arguments and what the caller observed
    calls,         \* history: per insert_transactions call, the ids it accepted
    x,             \* to_cents: the argument under evaluation
    cents,         \* to_cents: its outcome
    desc,          \* clean_description: the argument under evaluation
    cleaned        \* clean_description: its outcome, and that of cleaning it again

vars == <<accounts, transactions, committed, last, calls,
          x, cents, desc, cleaned>>

storeVars == <<accounts, transactions, committed, last, calls>>
pureVars == <<x, cents, desc, cleaned>>

(***************************************************************************)
(* Bounds of the model.                                                    *)
(***************************************************************************)
MaxAmountLen == 6
MaxDescLen == 5
MaxBatch == 2

(***************************************************************************)
(* Python values.                                                          *)
(***************************************************************************)
None == [kind |-> "None", chars |-> <<>>]
NaN == [kind |-> "nan", chars |-> <<>>]
Str(s) == [kind |-> "str", chars |-> s]

\* pd.notna(v)
notna(v) == v.kind \notin {"None", "nan"}

\* str(v)
PyStr(v) ==
    CASE v.kind = "None" -> <<"N", "o", "n", "e">>
      [] v.kind = "nan" -> <<"n", "a", "n">>
      [] OTHER -> v.chars

RECURSIVE SeqsUpTo(_, _)
SeqsUpTo(S, n) ==
    IF n = 0 THEN {<<>>}
    ELSE LET shorter == SeqsUpTo(S, n - 1)
         IN  shorter \cup {Append(s, c) : s \in shorter, c \in S}

Digits == <<"0", "1", "2", "3", "4", "5", "6", "7", "8", "9">>
IsDigit(c) == \E i \in 1..10 : Digits[i] = c
DigitVal(c) == (CHOOSE i \in 1..10 : Digits[i] = c) - 1

RECURSIVE DigitsVal(_)
DigitsVal(ds) ==
    IF ds = <<>> THEN 0
    ELSE 10 * DigitsVal(SubSeq(ds, 1, Len(ds) - 1)) + DigitVal(ds[Len(ds)])

RECURSIVE NatToStr(_)
NatToStr(n) ==
    IF n < 10 THEN <<Digits[n + 1]>>
    ELSE NatToStr(n \div 10) \o <<Digits[(n % 10) + 1]>>

\* str(n) for a Python int, as the f-string of compute_dedupe_hash formats it.
IntToStr(n) == IF n < 0 THEN <<"-">> \o NatToStr(-n) ELSE NatToStr(n)

RECURSIVE Pow10(_)
Pow10(k) == IF k = 0 THEN 1 ELSE 10 * Pow10(k - 1)

Abs(n) == IF n < 0 THEN -n ELSE n

(***************************************************************************)
(* to_cents: Decimal(str(x)).quantize(Decimal("0.01"), ROUND_HALF_UP),     *)
(* then int(d * 100).                                                      *)
(***************************************************************************)
IndexOfDot(s) ==
    IF \E i \in 1..Len(s) : s[i] = "."
    THEN CHOOSE i \in 1..Len(s) : s[i] = "." /\ \A j \in 1..(i - 1) : s[j] # "."
    ELSE 0

\* Decimal(text): [sign] digits [. digits*] or [sign] . digits+ ; anything
\* else of the modelled alphabet raises decimal.InvalidOperation.
ParseDecimal(s) ==
    LET signed == s # <<>> /\ s[1] \in {"-", "+"}
        neg == s # <<>> /\ s[1] = "-"
        body == IF signed THEN Tail(s) ELSE s
        dot == IndexOfDot(body)
        ip == IF dot = 0 THEN body ELSE SubSeq(body, 1, dot - 1)
        fp == IF dot = 0 THEN <<>> ELSE SubSeq(body, dot + 1, Len(body))
        ok == /\ Len(ip) + Len(fp) > 0
              /\ \A i \in 1..Len(ip) : IsDigit(ip[i])
              /\ \A i \in 1..Len(fp) : IsDigit(fp[i])
    IN  [ok |-> ok, neg |-> neg, int |-> ip, frac |-> fp]

\* decimal.ROUND_HALF_EVEN in place of ROUND_HALF_UP: a tie goes to the even
\* neighbour.
RoundHalfEven(kept, dropped) ==
    IF dropped = <<>> THEN kept
    ELSE LET first == DigitVal(dropped[1])
             tie == first = 5 /\ \A i \in 2..Len(dropped) : dropped[i] = "0"
         IN  IF first > 5 \/ (first = 5 /\ ~tie) \/ (tie /\ kept % 2 = 1)
             THEN kept + 1
             ELSE kept

\* decimal.ROUND_HALF_UP on the coefficient: the discarded digits round the
\* magnitude up exactly when the first of them is 5 or more.
RoundHalfUp(kept, dropped) ==
    IF dropped # <<>> /\ DigitVal(dropped[1]) >= 5 THEN kept + 1 ELSE kept

\* d.quantize(Decimal("0.01"), rounding=ROUND_HALF_UP): the coefficient of the
\* result at exponent -2.
Quantize(d) ==
    LET n == Len(d.frac)
        two == IF n >= 2 THEN SubSeq(d.frac, 1, 2)
               ELSE d.frac \o [i \in 1..(2 - n) |-> "0"]
        rest == IF n > 2 THEN SubSeq(d.frac, 3, n) ELSE <<>>
    IN  RoundHalfUp(DigitsVal(d.int \o two), rest)

\* A to_cents that takes a missing or empty amount for zero instead of
\* raising.
to_cents_missing_is_zero(v) ==
    IF v.kind \in {"None", "nan"} \/ PyStr(v) = <<>>
    THEN [raised |-> "no", value |-> 0]
    ELSE LET d == ParseDecimal(PyStr(v))
         IN  IF ~d.ok THEN [raised |-> "InvalidOperation", value |-> 0]
             ELSE [raised |-> "no",
                   value |-> IF d.neg THEN -Quantize(d) ELSE Quantize(d)]

to_cents(v) ==
    IF v.kind \in {"None", "nan"} THEN [raised |-> "ValueError", value |-> 0]
    ELSE LET d == ParseDecimal(PyStr(v))
         IN  IF ~d.ok THEN [raised |-> "InvalidOperation", value |-> 0]
             ELSE [raised |-> "no",
                   value |-> IF d.neg THEN -Quantize(d) ELSE Quantize(d)]

(***************************************************************************)
(* clean_description                                                       *)
(***************************************************************************)
UpperLetters == <<"A", "B", "C", "D", "E", "F", "G", "H", "I", "J", "K", "L", "M",
                  "N", "O", "P", "Q", "R", "S", "T", "U", "V", "W", "X", "Y", "Z">>
LowerLetters == <<"a", "b", "c", "d", "e", "f", "g", "h", "i", "j", "k", "l", "m",
                  "n", "o", "p", "q", "r", "s", "t", "u", "v", "w", "x", "y", "z">>

LowerChar(c) ==
    IF \E i \in 1..26 : UpperLetters[i] = c
    THEN LowerLetters[CHOOSE i \in 1..26 : UpperLetters[i] = c]
    ELSE c

\* str.lower()
Lower(s) == [i \in 1..Len(s) |-> LowerChar(s[i])]

IsSpace(c) == c \in {" ", "\t", "\n", "\r"}
IsLowerAlnum(c) == IsDigit(c) \/ \E i \in 1..26 : LowerLetters[i] = c

\* re.sub(r"[^a-z0-9\s]", " ", s)
SubNonAlnum(s) ==
    [i \in 1..Len(s) |-> IF IsLowerAlnum(s[i]) \/ IsSpace(s[i]) THEN s[i] ELSE " "]

\* re.sub(r"\s+", " ", s)
RECURSIVE CollapseSpaces(_)
CollapseSpaces(s) ==
    IF s = <<>> THEN <<>>
    ELSE IF IsSpace(s[1])
         THEN IF Len(s) >= 2 /\ IsSpace(s[2])
              THEN CollapseSpaces(Tail(s))
              ELSE <<" ">> \o CollapseSpaces(Tail(s))
         ELSE <<s[1]>> \o CollapseSpaces(Tail(s))

\* str.strip()
RECURSIVE Strip(_)
Strip(s) ==
    IF s = <<>> THEN s
    ELSE IF IsSpace(s[1]) THEN Strip(Tail(s))
    ELSE IF IsSpace(s[Len(s)]) THEN Strip(SubSeq(s, 1, Len(s) - 1))
    ELSE s

\* str.replace(n, ""): non-overlapping occurrences, left to right, one pass.
RECURSIVE Remove(_, _)
Remove(s, n) ==
    IF Len(s) < Len(n) THEN s
    ELSE IF SubSeq(s, 1, Len(n)) = n
         THEN Remove(SubSeq(s, Len(n) + 1, Len(s)), n)
         ELSE <<s[1]>> \o Remove(Tail(s), n)

NOISE_PHRASES ==
    << <<"c", "a", "r", "d", " ", "p", "u", "r", "c", "h", "a", "s", "e">>,
       <<"p", "o", "s">>,
       <<"p", "u", "r", "c", "h", "a", "s", "e">>,
       <<"d", "e", "b", "i", "t">>,
       <<"c", "r", "e", "d", "i", "t">>,
       <<"u", "s">> >>

\* for n in NOISE_PHRASES: s = s.replace(n, "")
RECURSIVE RemoveNoise(_, _)
RemoveNoise(s, i) ==
    IF i > Len(NOISE_PHRASES) THEN s
    ELSE RemoveNoise(Remove(s, NOISE_PHRASES[i]), i + 1)

clean_description(d) ==
    IF d = None THEN <<>>
    ELSE LET s1 == Lower(PyStr(d))
             s2 == SubNonAlnum(s1)
             s3 == Strip(CollapseSpaces(s2))
             s4 == RemoveNoise(s3, 1)
         IN  Strip(CollapseSpaces(s4))

(***************************************************************************)
(* compute_dedupe_hash                                                     *)
(***************************************************************************)
\* hashlib.sha256(key.encode("utf-8")).hexdigest(): the digest is written as
\* the tagged key it is the digest of (SHA-256 taken as collision-free).
Sha256Hex(key) == <<"sha256", key>>

\* f"{txn_date}|{amount_cents}|{desc_clean}|{account_id}"
compute_dedupe_hash(txn_date, amount_cents, desc_clean, account_id) ==
    Sha256Hex(PyStr(txn_date) \o <<"|">> \o IntToStr(amount_cents) \o <<"|">>
              \o desc_clean \o <<"|">> \o account_id)

(***************************************************************************)
(* SCHEMA_SQL: the constraints of the two tables the code writes.  Column  *)
(* created_at (DEFAULT CURRENT_TIMESTAMP) is left out: no code reads it.   *)
(***************************************************************************)
\* type TEXT CHECK(type IN ('debit','credit')) NOT NULL
AccountTypes == {"debit", "credit"}

\* The connection without the pragma: SQLite's default.
ForeignKeysOff == FALSE

\* PRAGMA foreign_keys = ON
ForeignKeysOn == TRUE

\* INSERT OR REPLACE INTO transactions: a row in conflict is deleted and the
\* new one stored.
SqlInsertOrReplace(txns, accts, row) ==
    [error |-> "no",
     txns |-> {t \in txns : t.id # row.id /\ t.dedupe_hash # row.dedupe_hash}
              \cup {row}]

\* INSERT INTO transactions ... : the constraint SQLite reports, or the table
\* with the row added.  NOT NULL is checked first, then the unique indexes,
\* and the foreign keys when the statement ends.
SqlInsertTransaction(txns, accts, row) ==
    LET error ==
            IF row.txn_date = None THEN "NOT NULL"
            ELSE IF \E t \in txns : t.id = row.id THEN "UNIQUE id"
            ELSE IF \E t \in txns : t.dedupe_hash = row.dedupe_hash
                 THEN "UNIQUE dedupe_hash"
            ELSE IF ForeignKeysOn
                    /\ ~\E a \in accts : a.account_id = row.account_id
                 THEN "FOREIGN KEY"
            ELSE "no"
    IN  [error |-> error,
         txns |-> IF error = "no" THEN txns \cup {row} ELSE txns]

(***************************************************************************)
(* upsert_account: INSERT ... ON CONFLICT(account_id) DO UPDATE SET ...    *)
(***************************************************************************)
\* ON CONFLICT(account_id) DO NOTHING: the first registration stays.
upsert_account_do_nothing(accts, account_id, institution, name, acct_type) ==
    IF acct_type \notin AccountTypes
    THEN [raised |-> "IntegrityError", accounts |-> accts]
    ELSE IF \E a \in accts : a.account_id = account_id
    THEN [raised |-> "no", accounts |-> accts]
    ELSE [raised |-> "no",
          accounts |->
              accts \cup {[account_id |-> account_id, institution |-> institution,
                           name |-> name, type |-> acct_type]}]

upsert_account(accts, account_id, institution, name, acct_type) ==
    IF acct_type \notin AccountTypes
    THEN [raised |-> "IntegrityError", accounts |-> accts]
    ELSE [raised |-> "no",
          accounts |->
              {a \in accts : a.account_id # account_id}
              \cup {[account_id |-> account_id, institution |-> institution,
                     name |-> name, type |-> acct_type]}]

(***************************************************************************)
(* insert_transactions                                                     *)
(***************************************************************************)
\* The VALUES tuple with the fingerprint taken over the raw description.
TransactionRowRawHash(row, id, amount_cents) ==
    [id |-> id,
     txn_date |-> row.txn_date,
     posted_date |-> IF notna(row.posted_date) THEN row.posted_date ELSE None,
     amount_cents |-> amount_cents,
     currency |-> IF notna(row.currency) THEN PyStr(row.currency)
                  ELSE <<"U", "S", "D">>,
     description_raw |-> PyStr(row.description_raw),
     description_clean |-> PyStr(row.description_clean),
     account_id |-> PyStr(row.account_id),
     category_id |-> None,
     dedupe_hash |-> compute_dedupe_hash(row.txn_date, amount_cents,
                                         PyStr(row.description_raw),
                                         PyStr(row.account_id))]

\* The VALUES tuple of one row of the DataFrame.
TransactionRow(row, id, amount_cents) ==
    [id |-> id,
     txn_date |-> row.txn_date,
     posted_date |-> IF notna(row.posted_date) THEN row.posted_date ELSE None,
     amount_cents |-> amount_cents,
     currency |-> IF notna(row.currency) THEN PyStr(row.currency)
                  ELSE <<"U", "S", "D">>,
     description_raw |-> PyStr(row.description_raw),
     description_clean |-> PyStr(row.description_clean),
     account_id |-> PyStr(row.account_id),
     category_id |-> None,
     dedupe_hash |-> compute_dedupe_hash(row.txn_date, amount_cents,
                                         PyStr(row.description_clean),
                                         PyStr(row.account_id))]

\* An except clause for another exception class: no constraint error is
\* caught.
CatchesNothing(error) == FALSE

\* except sqlite3.IntegrityError: skipped += 1
\* Every constraint of the table raises sqlite3.IntegrityError.
IsIntegrityError(error) ==
    error \in {"NOT NULL", "UNIQUE id", "UNIQUE dedupe_hash", "FOREIGN KEY"}

\* str(uuid.uuid4()): an id that no row has, in the connection's view or in
\* the durable database.
Uuid4(txns, durable) ==
    LET used == {t.id : t \in txns \cup durable}
    IN  CHOOSE n \in 1..(Cardinality(used) + 1) :
            n \notin used /\ \A m \in 1..(n - 1) : m \in used

\* The for loop: st is the loop's state, rows what is left of the DataFrame.
RECURSIVE InsertLoop(_, _, _, _)
InsertLoop(st, rows, accts, durable) ==
    IF rows = <<>> THEN st
    ELSE LET row == Head(rows)
             c == to_cents(row.amount)
         IN  IF c.raised # "no"
             THEN [st EXCEPT !.raised = c.raised]
             ELSE LET res == SqlInsertTransaction(
                                 st.txns, accts,
                                 TransactionRow(row, Uuid4(st.txns, durable),
                                                c.value))
                  IN  IF res.error = "no"
                      THEN InsertLoop(
                               [st EXCEPT !.txns = res.txns,
                                          !.inserted = @ + 1,
                                          !.outcomes = Append(@, "inserted")],
                               Tail(rows), accts, durable)
                      ELSE IF IsIntegrityError(res.error)
                      THEN InsertLoop(
                               [st EXCEPT !.skipped = @ + 1,
                                          !.outcomes = Append(@, res.error)],
                               Tail(rows), accts, durable)
                      ELSE [st EXCEPT !.raised = res.error]

\* The call up to con.commit(): what the connection holds and what the caller
\* sees.  printed is the summary line, written only when the loop finished.
insert_transactions(txns, accts, durable, batch) ==
    LET end == InsertLoop([txns |-> txns, inserted |-> 0,
                           skipped |-> 0, raised |-> "no", outcomes |-> <<>>],
                          batch, accts, durable)
    IN  [txns |-> end.txns, raised |-> end.raised,
         inserted |-> end.inserted, skipped |-> end.skipped,
         outcomes |-> end.outcomes,
         commits |-> end.raised = "no",
         printed |-> end.raised = "no"]

NotCalled == [called |-> FALSE, result |-> [raised |-> "no", value |-> 0]]
NotCleaned == [called |-> FALSE, once |-> <<>>, twice |-> <<>>]

(***************************************************************************)
(* The source adapters.  A file is the sequence of its data rows; a blank  *)
(* cell is NaN, as pandas reads it.                                        *)
(***************************************************************************)
\* pd.to_datetime(...).dt.date.astype(str), for the two layouts the modelled
\* files use: MM/DD/YYYY and YYYY-MM-DD.
ToIsoDate(s) ==
    IF Len(s) = 10 /\ s[3] = "/" /\ s[6] = "/"
    THEN SubSeq(s, 7, 10) \o <<"-">> \o SubSeq(s, 1, 2) \o <<"-">> \o SubSeq(s, 4, 5)
    ELSE s

\* pd.to_datetime(..., errors="coerce").dt.date.astype(str): a blank cell
\* becomes NaT, and astype(str) makes it the text "NaT".
ToIsoDateCoerce(v) ==
    IF notna(v) THEN ToIsoDate(PyStr(v)) ELSE <<"N", "a", "T">>

\* pd.to_numeric: a float64, held exactly in thousandths; a blank cell is NaN.
ToNumeric(v) ==
    IF ~notna(v) THEN [nan |-> TRUE, milli |-> 0]
    ELSE LET d == ParseDecimal(PyStr(v))
             n == Len(d.frac)
             three == IF n >= 3 THEN SubSeq(d.frac, 1, 3)
                      ELSE d.frac \o [i \in 1..(3 - n) |-> "0"]
             m == DigitsVal(d.int \o three)
         IN  [nan |-> FALSE, milli |-> IF d.neg THEN -m ELSE m]

\* .fillna(0.0)
FillZero(f) == IF f.nan THEN [nan |-> FALSE, milli |-> 0] ELSE f

\* str(x) of a float: the shortest text that reads back as x.
FloatStr(f) ==
    LET a == Abs(f.milli)
        r == a % 1000
        frac == IF r % 10 # 0
                THEN <<Digits[(r \div 100) + 1], Digits[((r \div 10) % 10) + 1],
                       Digits[(r % 10) + 1]>>
                ELSE IF (r \div 10) % 10 # 0
                THEN <<Digits[(r \div 100) + 1], Digits[((r \div 10) % 10) + 1]>>
                ELSE <<Digits[(r \div 100) + 1]>>
    IN  (IF f.milli < 0 THEN <<"-">> ELSE <<>>)
        \o NatToStr(a \div 1000) \o <<".">> \o frac

\* A cell of a float64 column, as insert_transactions receives it.
FloatCell(f) == IF f.nan THEN NaN ELSE Str(FloatStr(f))

\* What an adapter call leaves behind and reports.
AdapterRaised(accts, txns, error) ==
    [accounts |-> accts, txns |-> txns, raised |-> error,
     inserted |-> 0, skipped |-> 0, outcomes |-> <<>>, commits |-> FALSE,
     printed |-> FALSE, out |-> <<>>]

AdapterResult(up, r, out) ==
    [accounts |-> up.accounts, txns |-> r.txns,
     raised |-> r.raised, inserted |-> r.inserted, skipped |-> r.skipped,
     outcomes |-> r.outcomes, commits |-> r.commits, printed |-> r.printed,
     out |-> out]

ingest_source1_checking(accts, txns, durable, file, institution) ==
    IF file = <<>>
    THEN AdapterRaised(accts, txns, "KeyError")
    ELSE LET account_id == Strip(PyStr(file[1].AccountNum))
             account_name == Strip(PyStr(file[1].AccountName))
             up == upsert_account(accts, account_id, institution,
                                  account_name, "debit")
             out == [i \in 1..Len(file) |->
                       [txn_date |-> Str(ToIsoDate(PyStr(file[i].Date))),
                        posted_date |-> Str(ToIsoDate(PyStr(file[i].Date))),
                        amount |-> FloatCell(ToNumeric(file[i].Amount)),
                        currency |-> IF notna(file[i].Currency)
                                     THEN file[i].Currency
                                     ELSE Str(<<"U", "S", "D">>),
                        description_raw |-> Str(PyStr(file[i].Description)),
                        description_clean |->
                            Str(clean_description(Str(PyStr(file[i].Description)))),
                        account_id |-> Str(account_id)]]
         IN  AdapterResult(up, insert_transactions(txns, up.accounts, durable, out),
                           out)

ingest_source2_credit(accts, txns, durable, file, institution, card_name) ==
    IF file = <<>>
    THEN AdapterRaised(accts, txns, "KeyError")
    ELSE LET account_id == Strip(PyStr(file[1].CardNo))
             up == upsert_account(accts, account_id, institution,
                                  card_name, "credit")
             out == [i \in 1..Len(file) |->
                       [txn_date |-> Str(ToIsoDate(PyStr(file[i].TransactionDate))),
                        posted_date |-> Str(ToIsoDateCoerce(file[i].PostedDate)),
                        amount |->
                            FloatCell(
                                [nan |-> FALSE,
                                 milli |-> FillZero(ToNumeric(file[i].Credit)).milli
                                           - FillZero(ToNumeric(file[i].Debit)).milli]),
                        currency |-> Str(<<"U", "S", "D">>),
                        description_raw |-> Str(PyStr(file[i].Description)),
                        description_clean |->
                            Str(clean_description(Str(PyStr(file[i].Description)))),
                        account_id |-> Str(account_id)]]
         IN  AdapterResult(up, insert_transactions(txns, up.accounts, durable, out),
                           out)

(***************************************************************************)
(* The inputs the model draws from.                                        *)
(***************************************************************************)
IsoDate1 == <<"2", "0", "2", "4", "-", "0", "1", "-", "0", "5">>
UsDate1 == <<"0", "1", "/", "0", "5", "/", "2", "0", "2", "4">>
PosStarbucks == <<"P", "O", "S", " ", "S", "t", "a", "r", "b", "u", "c", "k", "s">>
CardPurchaseStarbucks ==
    <<"C", "a", "r", "d", " ", "P", "u", "r", "c", "h", "a", "s", "e", " ",
      "S", "t", "a", "r", "b", "u", "c", "k", "s">>
Starbucks == <<"s", "t", "a", "r", "b", "u", "c", "k", "s">>
Cafe == <<"C", "a", "f", "e">>
CafeClean == <<"c", "a", "f", "e">>
USD == <<"U", "S", "D">>
EUR == <<"E", "U", "R">>
A1 == <<"A", "1">>
A2 == <<"A", "2">>
Checking == <<"C", "h", "e", "c", "k", "i", "n", "g">>
Checking2 == <<"C", "h", "e", "c", "k", "i", "n", "g", "2">>
ChaseVisa == <<"C", "h", "a", "s", "e", " ", "V", "i", "s", "a">>

DfRow(d, p, a, c, raw, clean, acct) ==
    [txn_date |-> d, posted_date |-> p, amount |-> a, currency |-> c,
     description_raw |-> raw, description_clean |-> clean, account_id |-> acct]

\* Rows of a DataFrame handed to insert_transactions directly.
DfRows ==
    { DfRow(Str(IsoDate1), Str(IsoDate1), Str(<<"1", "9", ".", "9", "9", "5">>),
            Str(USD), Str(PosStarbucks), Str(Starbucks), Str(A1)),
      DfRow(Str(IsoDate1), Str(IsoDate1), Str(<<"-", "5", ".", "0", "0">>),
            NaN, Str(Cafe), Str(CafeClean), Str(A2)),
      DfRow(Str(IsoDate1), Str(IsoDate1), NaN,
            Str(USD), Str(Cafe), Str(CafeClean), Str(A1)) }

Source1Rows ==
    { [Date |-> Str(UsDate1), AccountNum |-> Str(<<"A", "1", " ">>),
       AccountName |-> Str(Checking), Description |-> Str(PosStarbucks),
       Amount |-> Str(<<"1", "9", ".", "9", "9", "5">>), Currency |-> NaN],
      [Date |-> Str(IsoDate1), AccountNum |-> Str(A1),
       AccountName |-> Str(Checking), Description |-> Str(CardPurchaseStarbucks),
       Amount |-> Str(<<"2", "0", ".", "0", "0">>), Currency |-> Str(EUR)] }

Source2Rows ==
    { [TransactionDate |-> Str(IsoDate1), PostedDate |-> NaN, CardNo |-> Str(A2),
       Description |-> Str(Cafe),
       Debit |-> Str(<<"5", ".", "0", "0">>), Credit |-> NaN] }

\* Arguments of direct upsert_account calls.
AccountArgs ==
    { <<A1, "X", Checking2, "debit">>,
      <<A2, "Y", ChaseVisa, "credit">>, <<A2, "Y", ChaseVisa, "savings">> }

(***************************************************************************)
(* The store: one connection (ensure_db), used by a sequence of calls.     *)
(***************************************************************************)
Batches == SeqsUpTo(DfRows, MaxBatch)
Source1Files == SeqsUpTo(Source1Rows, MaxBatch)
Source2Files == SeqsUpTo(Source2Rows, MaxBatch)

NoAccount == [account_id |-> <<>>, institution |-> "", name |-> <<>>, type |-> ""]

Call(op, account, batch, r) ==
    [op |-> op, account |-> account, batch |-> batch, raised |-> r.raised,
     inserted |-> r.inserted, skipped |-> r.skipped, outcomes |-> r.outcomes,
     printed |-> r.printed]

NoInsert(raised) ==
    [raised |-> raised, inserted |-> 0, skipped |-> 0, outcomes |-> <<>>,
     printed |-> FALSE]

\* Ids of the rows a call added to the connection's view.
Accepted(before, after) == {t.id : t \in after \ before}

Record(before, r) ==
    IF Accepted(before, r.txns) = {} THEN calls
    ELSE calls \cup {[ids |-> Accepted(before, r.txns),
                      aborted |-> r.raised # "no"]}

\* ensure_db: connect, create the schema, commit.
StoreInit ==
    /\ accounts = {}
    /\ transactions = {}
    /\ committed = [accounts |-> {}, transactions |-> {}]
    /\ last = Call("ensure_db", NoAccount, <<>>, NoInsert("no"))
    /\ calls = {}

UpsertAccount(account_id, institution, name, acct_type) ==
    \E r \in {upsert_account(accounts, account_id, institution, name,
                               acct_type)} :
        /\ accounts' = r.accounts
        /\ last' = Call("upsert_account",
                        [account_id |-> account_id, institution |-> institution,
                         name |-> name, type |-> acct_type],
                        <<>>, NoInsert(r.raised))
        /\ UNCHANGED <<transactions, committed, calls, pureVars>>

InsertTransactions(batch) ==
    \E r \in {insert_transactions(transactions, accounts,
                                 committed.transactions, batch)} :
        /\ transactions' = r.txns
        /\ committed' = IF r.commits
                        THEN [accounts |-> accounts, transactions |-> r.txns]
                        ELSE committed
        /\ last' = Call("insert_transactions", NoAccount, batch, r)
        /\ calls' = Record(transactions, r)
        /\ UNCHANGED <<accounts, pureVars>>

Adapter(op, r) ==
    /\ accounts' = r.accounts
    /\ transactions' = r.txns
    /\ committed' = IF r.commits
                    THEN [accounts |-> r.accounts, transactions |-> r.txns]
                    ELSE committed
    /\ last' = Call(op, NoAccount, r.out, r)
    /\ calls' = Record(transactions, r)
    /\ UNCHANGED pureVars

IngestSource1(file) ==
    \E r \in {ingest_source1_checking(accounts, transactions,
                                      committed.transactions, file,
                                      "Santander")} :
        Adapter("ingest_source1_checking", r)

IngestSource2(file) ==
    \E r \in {ingest_source2_credit(accounts, transactions,
                                    committed.transactions, file,
                                    "Capital One", ChaseVisa)} :
        Adapter("ingest_source2_credit", r)

\* main: con.close() without a commit drops what the connection had not
\* committed; the next run's ensure_db opens the durable database.
Restart ==
    /\ accounts' = committed.accounts
    /\ transactions' = committed.transactions
    /\ last' = Call("main", NoAccount, <<>>, NoInsert("no"))
    /\ calls' = {c \in calls :
                     c.ids \cap {t.id : t \in committed.transactions} # {}}
    /\ UNCHANGED <<committed, pureVars>>

Init ==
    /\ StoreInit
    /\ x = None
    /\ cents = NotCalled
    /\ desc = None
    /\ cleaned = NotCleaned

Next ==
    \/ \E a \in AccountArgs : UpsertAccount(a[1], a[2], a[3], a[4])
    \/ \E batch \in Batches : InsertTransactions(batch)
    \/ \E file \in Source1Files : IngestSource1(file)
    \/ \E file \in Source2Files : IngestSource2(file)
    \/ Restart

Spec == Init /\ [][Next]_vars

(***************************************************************************)
(* The helpers on their own: the argument is drawn by Init, one step       *)
(* applies the function.                                                   *)
(***************************************************************************)
AmountAlphabet == {"0", "4", "5", "9", ".", "-"}
AmountInputs ==
    {None, NaN} \cup {Str(s) : s \in SeqsUpTo(AmountAlphabet, MaxAmountLen)}

DescAlphabet == {"u", "s", "p", "o", " ", "U", "#"}
DescInputs == {None} \cup {Str(s) : s \in SeqsUpTo(DescAlphabet, MaxDescLen)}

InitCents ==
    /\ StoreInit
    /\ x \in AmountInputs
    /\ cents = NotCalled
    /\ desc = None
    /\ cleaned = NotCleaned

ToCentsCall ==
    /\ cents = NotCalled
    /\ cents' = [called |-> TRUE, result |-> to_cents(x)]
    /\ UNCHANGED <<storeVars, x, desc, cleaned>>

SpecCents == InitCents /\ [][ToCentsCall]_vars

InitClean ==
    /\ StoreInit
    /\ x = None
    /\ cents = NotCalled
    /\ desc \in DescInputs
    /\ cleaned = NotCleaned

CleanCall ==
    /\ cleaned = NotCleaned
    /\ cleaned' = [called |-> TRUE,
                   once |-> clean_description(desc),
                   twice |-> clean_description(Str(clean_description(desc)))]
    /\ UNCHANGED <<storeVars, x, cents, desc>>

SpecClean == InitClean /\ [][CleanCall]_vars

(***************************************************************************)
(* insert_transactions over rows of every shape: amounts that are absent   *)
(* or no number, a missing date, an account nobody registered.             *)
(***************************************************************************)
WideRows ==
    { DfRow(Str(IsoDate1), Str(IsoDate1), Str(<<"1", "9", ".", "9", "9", "5">>),
            Str(USD), Str(PosStarbucks), Str(Starbucks), Str(A1)),
      DfRow(Str(IsoDate1), Str(IsoDate1), Str(<<"-", "5", ".", "0", "0">>),
            NaN, Str(Cafe), Str(CafeClean), Str(A2)),
      DfRow(Str(IsoDate1), Str(IsoDate1), None,
            Str(USD), Str(Cafe), Str(CafeClean), Str(A1)),
      DfRow(Str(IsoDate1), Str(IsoDate1), NaN,
            Str(USD), Str(Cafe), Str(CafeClean), Str(A1)),
      DfRow(Str(IsoDate1), Str(IsoDate1), Str(<<>>),
            Str(USD), Str(Cafe), Str(CafeClean), Str(A1)),
      DfRow(None, None, Str(<<"5">>),
            Str(USD), Str(Cafe), Str(CafeClean), Str(A1)) }

WideBatches == SeqsUpTo(WideRows, MaxBatch)

NextRows ==
    \/ \E a \in AccountArgs : UpsertAccount(a[1], a[2], a[3], a[4])
    \/ \E batch \in WideBatches : InsertTransactions(batch)

SpecRows == Init /\ [][NextRows]_vars

(***************************************************************************)
(* Properties                                                              *)
(***************************************************************************)
InsertOps ==
    {"insert_transactions", "ingest_source1_checking", "ingest_source2_credit"}

\* The call ran insert_transactions: directly, or through an adapter that
\* found a first row in its file.
InsertRan(call) ==
    \/ call.op = "insert_transactions"
    \/ call.op \in InsertOps /\ call.batch # <<>>

Ids(rows) == {t.id : t \in rows}

Valid(row) == to_cents(row.amount).raised = "no"

\* The four values the fingerprint is made of.
Four(row) ==
    <<row.txn_date, to_cents(row.amount).value, PyStr(row.description_clean),
      PyStr(row.account_id)>>

FourOf(t) == <<t.txn_date, t.amount_cents, t.description_clean, t.account_id>>

Fingerprint(row) ==
    compute_dedupe_hash(row.txn_date, to_cents(row.amount).value,
                        PyStr(row.description_clean), PyStr(row.account_id))

\* A batch of rows with pairwise distinct fingerprints, none of them stored,
\* each on a registered account (accts).
FreshBatch(b, txns, accts) ==
    /\ \A i \in 1..Len(b) :
           /\ Valid(b[i])
           /\ b[i].txn_date # None
           /\ \E a \in accts : a.account_id = PyStr(b[i].account_id)
           /\ ~\E t \in txns : t.dedupe_hash = Fingerprint(b[i])
    /\ \A i, j \in 1..Len(b) : i # j => Fingerprint(b[i]) # Fingerprint(b[j])

\* C1: a batch of N rows with pairwise distinct fingerprints, none stored, on
\* registered accounts, reports inserted = N and skipped = 0; the same batch
\* run again right after reports inserted = 0 and skipped = N and leaves the
\* stored transactions as they were.
C1_ReimportIdempotent ==
    [][ /\ ( /\ InsertRan(last')
             /\ FreshBatch(last'.batch, transactions, accounts') )
           => /\ last'.raised = "no"
              /\ last'.inserted = Len(last'.batch)
              /\ last'.skipped = 0
        /\ ( /\ InsertRan(last)
             /\ last.raised = "no"
             /\ last.inserted = Len(last.batch)
             /\ last'.op = last.op
             /\ last'.batch = last.batch )
           => /\ last'.raised = "no"
              /\ last'.inserted = 0
              /\ last'.skipped = Len(last.batch)
              /\ transactions' = transactions
              /\ committed'.transactions = transactions ]_vars

\* The second run: one earlier call accepted both rows of the batch, and the
\* last call, on that batch, skipped both.
C1_Witness ==
    /\ last.op = "insert_transactions"
    /\ Len(last.batch) = 2
    /\ Fingerprint(last.batch[1]) # Fingerprint(last.batch[2])
    /\ last.inserted = 0
    /\ last.skipped = 2
    /\ \E c \in calls :
           /\ ~c.aborted
           /\ c.ids = {t.id : t \in {u \in transactions :
                                        \E i \in 1..2 :
                                            FourOf(u) = Four(last.batch[i])}}
           /\ Cardinality(c.ids) = 2

UniqueFingerprints(rows) ==
    \A t, u \in rows : t.dedupe_hash = u.dedupe_hash => t = u

\* C2: no two stored transactions share a dedupe_hash, and no call modifies
\* or replaces a stored transaction: a row of the table stays in it with every
\* field as it was (only closing the connection drops uncommitted rows), and
\* the durable rows never change.
C2_UniqueAndImmutable ==
    /\ [](UniqueFingerprints(transactions)
          /\ UniqueFingerprints(committed.transactions))
    /\ [][ /\ \A t \in transactions : \A u \in transactions' :
                  (u.dedupe_hash = t.dedupe_hash \/ u.id = t.id) => u = t
           /\ last'.op # "main" => transactions \subseteq transactions'
           /\ committed.transactions \subseteq committed'.transactions ]_vars

C2_Witness ==
    /\ last.op \in InsertOps
    /\ \E i \in 1..Len(last.outcomes) :
           /\ last.outcomes[i] = "UNIQUE dedupe_hash"
           /\ \E t \in transactions :
                  /\ t.dedupe_hash = Fingerprint(last.batch[i])
                  /\ t.posted_date # last.batch[i].posted_date

\* C3: a rejected insert is counted as skipped only when the rejection is a
\* dedupe_hash collision; any other rejection (FOREIGN KEY, NOT NULL) raises
\* and is never in the skipped count.
C3_OnlyCollisionsSkipped ==
    last.op \in InsertOps =>
        /\ \A i \in 1..Len(last.outcomes) :
               last.outcomes[i] \in {"inserted", "UNIQUE dedupe_hash"}
        /\ last.skipped =
               Cardinality({i \in 1..Len(last.outcomes) :
                                last.outcomes[i] = "UNIQUE dedupe_hash"})

\* C4: the durable database holds all or none of the rows a call accepted,
\* and none of the rows accepted by a call that raised.
C4_BatchAtomic ==
    \A c \in calls :
        /\ \/ c.ids \cap Ids(committed.transactions) = {}
           \/ c.ids \subseteq Ids(committed.transactions)
        /\ c.aborted => c.ids \cap Ids(committed.transactions) = {}

\* C7: upsert_account with a valid type leaves exactly one row for the
\* identifier, holding the institution, name and type of the call; the rows
\* of other accounts and all transactions are as before.
C7_UpsertOverwrites ==
    /\ [](\A a, b \in accounts : a.account_id = b.account_id => a = b)
    /\ [][ /\ (last'.op = "upsert_account" /\ last'.raised = "no")
              => ( /\ {a \in accounts' : a.account_id = last'.account.account_id}
                      = {last'.account}
                   /\ {a \in accounts' : a.account_id # last'.account.account_id}
                      = {a \in accounts : a.account_id # last'.account.account_id}
                   /\ transactions' = transactions
                   /\ committed' = committed )
           /\ last'.op # "main"
              => ( {a.account_id : a \in accounts}
                   \subseteq {a.account_id : a \in accounts'} ) ]_vars

C7_Witness ==
    /\ last.op = "upsert_account"
    /\ last.raised = "no"
    /\ last.account = [account_id |-> A1, institution |-> "X",
                       name |-> Checking2, type |-> "debit"]
    /\ [account_id |-> A1, institution |-> "Santander", name |-> Checking,
        type |-> "debit"] \in committed.accounts
    /\ \E a \in accounts : a.account_id = A2
    /\ transactions # {}

ReferencesAccount(rows, accts) ==
    \A t \in rows : \E a \in accts : a.account_id = t.account_id

\* C8: every stored transaction's account_id is the identifier of an account
\* row, in the connection's view and in the durable database; an adapter run
\* registers the file's account before it inserts, so none of its rows is
\* rejected for a missing account.
C8_AccountExists ==
    /\ [](ReferencesAccount(transactions, accounts)
          /\ ReferencesAccount(committed.transactions, committed.accounts))
    /\ [][ ( /\ last'.op \in {"ingest_source1_checking", "ingest_source2_credit"}
             /\ last'.batch # <<>> )
           => /\ \E a \in accounts' :
                     a.account_id = PyStr(last'.batch[1].account_id)
              /\ \A i \in 1..Len(last'.outcomes) :
                     last'.outcomes[i] # "FOREIGN KEY" ]_vars

C8_Witness ==
    /\ last.op = "ingest_source2_credit"
    /\ last.inserted = 1
    /\ \A a \in committed.accounts : a.institution = "Capital One"
    /\ \E t \in committed.transactions : t.account_id = A2

\* C10: a row whose (txn_date, amount in cents, cleaned description,
\* account_id) equal those of a stored transaction, or of a row inserted
\* earlier in the same batch, is skipped as a dedupe_hash duplicate, whatever
\* its raw description, posted date and currency.
C10_SameFourSkipped ==
    [][ last'.op \in InsertOps =>
        \A i \in 1..Len(last'.batch) :
            ( /\ \A j \in 1..i : Valid(last'.batch[j])
              /\ \/ \E t \in transactions : FourOf(t) = Four(last'.batch[i])
                 \/ \E j \in 1..(i - 1) :
                        /\ last'.outcomes[j] = "inserted"
                        /\ Four(last'.batch[j]) = Four(last'.batch[i]) )
            => /\ i <= Len(last'.outcomes)
               /\ last'.outcomes[i] = "UNIQUE dedupe_hash" ]_vars

C10_Witness ==
    /\ last.op \in InsertOps
    /\ \E i \in 1..Len(last.outcomes) :
           /\ last.outcomes[i] = "UNIQUE dedupe_hash"
           /\ PyStr(last.batch[i].description_raw) = CardPurchaseStarbucks
           /\ last.batch[i].currency = Str(EUR)
           /\ \E t \in transactions :
                  /\ FourOf(t) = Four(last.batch[i])
                  /\ t.description_raw = PosStarbucks
                  /\ t.currency = USD

\* The amounts the claim names as failing: absent, or the empty text.
Unusable(v) == v.kind \in {"None", "nan"} \/ v = Str(<<>>)

\* C9: to_cents raises on None, NaN and the empty text, and then the
\* insert_transactions call raises at that row: the rows before it are all
\* that was counted, no later row is processed, nothing is printed.
C9_BadAmountFatal ==
    (last.op = "insert_transactions"
     /\ \E i \in 1..Len(last.batch) : Unusable(last.batch[i].amount))
    => LET k == CHOOSE i \in 1..Len(last.batch) :
                    /\ Unusable(last.batch[i].amount)
                    /\ \A j \in 1..(i - 1) : ~Unusable(last.batch[j].amount)
       IN  /\ last.raised \in {"ValueError", "InvalidOperation"}
           /\ Len(last.outcomes) = k - 1
           /\ last.inserted + last.skipped = k - 1
           /\ ~last.printed

C9_Witness ==
    /\ last.op = "insert_transactions"
    /\ Len(last.batch) = 2
    /\ last.batch[2].amount = Str(<<>>)
    /\ last.raised = "InvalidOperation"
    /\ last.inserted = 1
    /\ transactions # {}
    /\ committed.transactions = {}

\* C5: for a decimal text x, to_cents(x) is an integer nearest to 100*x, the
\* one farther from zero when 100*x is halfway between two integers.
C5_NearestCentHalfAway ==
    /\ (cents.called /\ x.kind = "str" /\ ParseDecimal(x.chars).ok) =>
           LET d == ParseDecimal(x.chars)
               num == 100 * DigitsVal(d.int \o d.frac)
               den == Pow10(Len(d.frac))
               c == Abs(cents.result.value)
           IN  /\ cents.result.raised = "no"
               /\ 2 * Abs(num - c * den) <= den
               /\ 2 * Abs(num - c * den) = den => c * den > num
               /\ cents.result.value < 0 => d.neg
               /\ cents.result.value > 0 => ~d.neg
    /\ to_cents(Str(<<"1", "9", ".", "9", "9", "5">>)).value = 2000
    /\ to_cents(Str(<<"1", "9", ".", "9", "9", "4">>)).value = 1999
    /\ to_cents(Str(<<"1", "2", ".", "3", "4", "5">>)).value = 1235
    /\ to_cents(Str(<<"0", ".", "0", "0", "5">>)).value = 1
    /\ to_cents(Str(<<"-", "0", ".", "0", "0", "5">>)).value = -1

C5_Witness ==
    /\ cents.called
    /\ x = Str(<<"-", "0", ".", "0", "4", "5">>)
    /\ cents.result = [raised |-> "no", value |-> -5]

\* C6: cleaning a cleaned description changes nothing.
C6_CleanIdempotent ==
    cleaned.called => cleaned.twice = cleaned.once

====
